---- MODULE Spec2Model ----
(***************************************************************************)
(* VoxOver: the stage controller of app.py (a Streamlit script that is     *)
(* re-executed top to bottom on every user event) and the media functions  *)
(* of utils.py and genai.py it calls.                                      *)
(*                                                                         *)
(* Spec      : the session controller.  One action per user event, i.e.    *)
(*             per execution of main(); the run in which "Generate         *)
(*             Voiceover Text" is clicked is cut in two at the call of     *)
(*             generate_text_callback, so that the callback's own effect   *)
(*             is a step of its own.                                       *)
(* SpecMedia : merge_video_with_audio and generate_video_description,      *)
(*             statement by statement, on inputs drawn in MediaInit.       *)
(***************************************************************************)
EXTENDS Integers, FiniteSets, Sequences, TLC

(* ------------------------------ bounds --------------------------------- *)
\* uuid4() is modelled by a counter; at most MaxId scratch files per run.
MaxId == 7
\* Durations of clips, in whole seconds, range over 1..MaxDur.
MaxDur == 3

(* ----------------------------- constants ------------------------------- *)
\* Python's None for the three path fields of the session state.
None == 0
\* A gain of 1.0, in tenths (utils.py tests video_volume != 1.0).
Unity == 10
\* generate_video_description samples range(10) frames ...
NumFrames == 10
\* ... at i * duration / 9.
FrameDiv == 9
\* generate_voiceover_text: wps = 200/60, 200 words per minute / 60 seconds.
WordsPerMinute == 200
SecondsPerMinute == 60
\* The sliders of app.py: original volume 0.0..1.0, voiceover 0.1..2.0.
VideoVolumes == {0, 3, Unity}
AudioVolumes == {1, Unity, 20}

Scripts == {"", "draft", "edited"}
Instr == {"", "narrate"}
Voices == {"nova", "alloy"}
Messages == {"none", "save_err", "text_ok", "text_err", "audio_ok",
             "audio_err", "merge_ok", "merge_err"}

VARIABLES
    \* st.session_state
    processing_step, video_path, voiceover_text, audio_path,
    merged_video_path, instructions, selected_voice,
    \* widget state kept by the framework between runs
    uploader,        \* the file_uploader holds a file
    instr_widget,    \* the text typed in "Voiceover Instructions"
    \* the session's scratch directory and the uuid source
    files, nextId,
    \* position inside a run of main(), the widget whose event started the
    \* run, and the st.success/st.error the run showed
    pc, event, msg,
    \* merge_video_with_audio / generate_video_description (SpecMedia)
    mpc,                \* position in the function being executed
    vdur, adur, odur,   \* durations: video, synthesized audio, the video's
                        \* own audio track (0: the video has none)
    video_volume, audio_volume,       \* gains, in tenths
    original_audio, added_audio_clip, \* locals of merge (sets of <= 1 clip)
    final_audio,        \* the tracks of final_clip's audio
    written,            \* the audio tracks of the file written to merged_path
    handles,            \* media readers that are open
    temp_dir, frames,   \* generate_video_description: scratch dir, timestamps
    result,             \* how the last call ended
    nwords_max,         \* generate_voiceover_text: the word budget <<num, den>>
    requests            \* generation requests submitted by the current call

session == <<processing_step, video_path, voiceover_text, audio_path,
             merged_video_path, instructions, selected_voice>>
widgets == <<uploader, instr_widget>>
disk == <<files, nextId>>
inputs == <<vdur, adur, odur, video_volume, audio_volume>>
locals == <<original_audio, added_audio_clip, final_audio>>
calls == <<nwords_max, requests>>
media == <<mpc, inputs, locals, written, handles, temp_dir, frames, result,
           calls>>
vars == <<session, widgets, disk, pc, event, msg, media>>

(* ------------------------- app.py: the session ------------------------- *)

\* init_session_state on the first run of a fresh session.
init_session_state ==
    /\ video_path = None
    /\ voiceover_text = ""
    /\ audio_path = None
    /\ merged_video_path = None
    /\ processing_step = 0
    /\ instructions = ""
    /\ selected_voice = "nova"

\* The media variables are not used by the controller.
MediaIdle ==
    /\ mpc = "off" /\ vdur = 1 /\ adur = 1 /\ odur = 0
    /\ video_volume = 3 /\ audio_volume = Unity
    /\ original_audio = {} /\ added_audio_clip = {} /\ final_audio = {}
    /\ written = {} /\ handles = {} /\ temp_dir = FALSE /\ frames = <<>>
    /\ result = "none" /\ nwords_max = <<0, 1>> /\ requests = 0

Init ==
    /\ init_session_state
    /\ uploader = FALSE /\ instr_widget = ""
    /\ files = {} /\ nextId = 1
    /\ pc = "idle" /\ event = "none" /\ msg = "none"
    /\ MediaIdle

\* The scratch directory holds <<prefix, id>> for the file prefix_<id>.
\* os.path.exists on a session path:
Exists(p) == p # None /\ \E f \in files : f[2] = p

\* The "Step 1/Step 2" block of main (lines 203-233) up to, not including,
\* the button: the uploaded file, if any, is saved again under a fresh name
\* on every run at step 0, and a non-empty instruction text is stored.
\* typed is the content of the instructions text area in this run.
Step0Block(saveOk, typed) ==
    IF ~uploader'
    THEN /\ UNCHANGED <<video_path, instructions, disk>>
         /\ instr_widget' = ""
         /\ msg' = "none"
    ELSE IF ~saveOk
    THEN /\ UNCHANGED <<video_path, instructions, disk>>
         /\ instr_widget' = ""
         /\ msg' = "save_err"
    ELSE /\ nextId <= MaxId
         /\ video_path' = nextId
         /\ files' = files \cup {<<"input_video", nextId>>}
         /\ nextId' = nextId + 1
         /\ instr_widget' = typed
         /\ instructions' = IF typed # "" THEN typed ELSE instructions
         /\ msg' = "none"

\* A run of main that skips the step-0 block: widgets that were not rendered
\* lose their state when the run completes.
DropStep0Widgets == uploader' = FALSE /\ instr_widget' = ""

\* The user puts a file in the uploader (rendered only while step = 0).
UploadFile(saveOk) ==
    /\ pc = "idle" /\ processing_step = 0
    /\ event' = "upload"
    /\ uploader' = TRUE
    /\ Step0Block(saveOk, instr_widget)
    /\ UNCHANGED <<processing_step, voiceover_text, audio_path,
                   merged_video_path, selected_voice, pc, media>>

\* The user removes the file from the uploader.
RemoveFile ==
    /\ pc = "idle" /\ processing_step = 0 /\ uploader
    /\ event' = "remove_file"
    /\ uploader' = FALSE
    /\ Step0Block(TRUE, "")
    /\ UNCHANGED <<processing_step, voiceover_text, audio_path,
                   merged_video_path, selected_voice, pc, media>>

\* The instructions text area is on the page after a run at step 0 that
\* saved the upload.
InstructionsShown ==
    processing_step = 0 /\ uploader /\ msg # "save_err"

\* The user types in "Voiceover Instructions".
EnterInstructions(saveOk, typed) ==
    /\ pc = "idle" /\ InstructionsShown
    /\ event' = "instructions"
    /\ typed # instr_widget
    /\ uploader' = uploader
    /\ Step0Block(saveOk, typed)
    /\ UNCHANGED <<processing_step, voiceover_text, audio_path,
                   merged_video_path, selected_voice, pc, media>>

\* "Generate Voiceover Text" is rendered (line 230-232).
CanDraft == InstructionsShown /\ instr_widget # ""

\* The user clicks "Generate Voiceover Text": main runs down to line 233.
ClickGenerateText(saveOk) ==
    /\ pc = "idle" /\ CanDraft
    /\ event' = "generate_text"
    /\ uploader' = uploader
    /\ Step0Block(saveOk, instr_widget)
    /\ pc' = IF saveOk THEN "text_cb" ELSE "idle"
    /\ UNCHANGED <<processing_step, voiceover_text, audio_path,
                   merged_video_path, selected_voice, media>>

\* generate_text_callback (lines 115-126); ok is the outcome of
\* generate_voiceover_text.  The rest of the run renders the later blocks
\* without changing the session.
generate_text_callback(ok) ==
    /\ pc = "text_cb"
    /\ UNCHANGED event
    /\ processing_step' = 1
    /\ voiceover_text' = IF ok THEN "draft" ELSE ""
    /\ msg' = IF ok THEN "text_ok" ELSE "text_err"
    /\ pc' = "idle"
    /\ UNCHANGED <<video_path, audio_path, merged_video_path, instructions,
                   selected_voice, widgets, disk, media>>

\* The "Step 3/Step 4" block (lines 235-290) is rendered.
CanSynthesize == processing_step >= 1

\* The user edits the "Voiceover Script" text area (lines 250-257).
EditScript(t) ==
    /\ pc = "idle" /\ CanSynthesize
    /\ event' = "edit_script"
    /\ t # voiceover_text
    /\ voiceover_text' = t
    /\ msg' = "none"
    /\ DropStep0Widgets
    /\ UNCHANGED <<processing_step, video_path, audio_path,
                   merged_video_path, instructions, selected_voice, disk,
                   pc, media>>

\* The user picks another voice (lines 269-275).
SelectVoice(v) ==
    /\ pc = "idle" /\ CanSynthesize
    /\ event' = "select_voice"
    /\ v # selected_voice
    /\ selected_voice' = v
    /\ msg' = "none"
    /\ DropStep0Widgets
    /\ UNCHANGED <<processing_step, video_path, voiceover_text, audio_path,
                   merged_video_path, instructions, disk, pc, media>>

\* Mutant of generate_audio_callback: the failure branch resets the script
\* as well as the audio path.
generate_audio_callback_ClearsScript(ok) ==
    /\ pc = "idle" /\ CanSynthesize
    /\ event' = "generate_audio"
    /\ processing_step' = 2
    /\ IF ok
       THEN /\ nextId <= MaxId
            /\ audio_path' = nextId
            /\ files' = files \cup {<<"voiceover", nextId>>}
            /\ nextId' = nextId + 1
            /\ UNCHANGED voiceover_text
       ELSE /\ audio_path' = None
            /\ voiceover_text' = ""
            /\ UNCHANGED disk
    /\ msg' = IF ok THEN "audio_ok" ELSE "audio_err"
    /\ DropStep0Widgets
    /\ UNCHANGED <<video_path, merged_video_path, instructions,
                   selected_voice, pc, media>>

\* The user clicks "Generate Voiceover Audio": generate_audio_callback
\* (lines 128-146); ok is the outcome of generate_voiceover_audio.
generate_audio_callback(ok) ==
    /\ pc = "idle" /\ CanSynthesize
    /\ event' = "generate_audio"
    /\ processing_step' = 2
    /\ IF ok
       THEN /\ nextId <= MaxId
            /\ audio_path' = nextId
            /\ files' = files \cup {<<"voiceover", nextId>>}
            /\ nextId' = nextId + 1
       ELSE /\ audio_path' = None
            /\ UNCHANGED disk
    /\ msg' = IF ok THEN "audio_ok" ELSE "audio_err"
    /\ DropStep0Widgets
    /\ UNCHANGED <<video_path, voiceover_text, merged_video_path,
                   instructions, selected_voice, pc, media>>

\* "Create Final Video" is rendered (lines 292-329).
CanMerge == processing_step >= 2 /\ Exists(audio_path)

\* Mutant of merge_video_audio_callback: the except branch resets
\* audio_path instead of merged_video_path.
merge_video_audio_callback_ClearsAudio(ok) ==
    /\ pc = "idle" /\ CanMerge
    /\ event' = "merge"
    /\ processing_step' = 3
    /\ IF ok
       THEN /\ nextId <= MaxId
            /\ merged_video_path' = nextId
            /\ files' = files \cup {<<"merged_video", nextId>>}
            /\ nextId' = nextId + 1
            /\ UNCHANGED audio_path
       ELSE /\ audio_path' = None
            /\ UNCHANGED <<merged_video_path, disk>>
    /\ msg' = IF ok THEN "merge_ok" ELSE "merge_err"
    /\ DropStep0Widgets
    /\ UNCHANGED <<video_path, voiceover_text, instructions,
                   selected_voice, pc, media>>

\* The user clicks "Create Final Video": merge_video_audio_callback
\* (lines 148-167); ok is the outcome of merge_video_with_audio.
merge_video_audio_callback(ok) ==
    /\ pc = "idle" /\ CanMerge
    /\ event' = "merge"
    /\ processing_step' = 3
    /\ IF ok
       THEN /\ nextId <= MaxId
            /\ merged_video_path' = nextId
            /\ files' = files \cup {<<"merged_video", nextId>>}
            /\ nextId' = nextId + 1
       ELSE /\ merged_video_path' = None
            /\ UNCHANGED disk
    /\ msg' = IF ok THEN "merge_ok" ELSE "merge_err"
    /\ DropStep0Widgets
    /\ UNCHANGED <<video_path, voiceover_text, audio_path, instructions,
                   selected_voice, pc, media>>

\* The three retry buttons are rendered (lines 332-348).
CanRetry == processing_step >= 3 /\ Exists(merged_video_path)

\* A retry button: set the step and st.rerun().
RetryTo(j, button) ==
    /\ pc = "idle" /\ CanRetry
    /\ event' = button
    /\ processing_step' = j
    /\ msg' = "none"
    /\ pc' = "rerun"
    /\ DropStep0Widgets
    /\ UNCHANGED <<video_path, voiceover_text, audio_path, merged_video_path,
                   instructions, selected_voice, disk, media>>

\* "Edit Text Again" (lines 350-352).
EditTextAgain == RetryTo(1, "edit_text_again")
\* "Change Voice Settings" (lines 355-357).
ChangeVoiceSettings == RetryTo(1, "change_voice_settings")
\* Mutant of AdjustVolumes: the button sets the step of its neighbour.
AdjustVolumes_ToStep1 == RetryTo(1, "adjust_volumes")

\* "Adjust Volumes" (lines 360-362).
AdjustVolumes == RetryTo(2, "adjust_volumes")

\* Mutant of start_over: 'merged_video_path' is missing from the key list.
start_over_KeepsMerged(keep) ==
    /\ pc = "idle"
    /\ event' = "start_over"
    /\ video_path' = None
    /\ voiceover_text' = ""
    /\ audio_path' = None
    /\ processing_step' = 0
    /\ msg' = "none"
    /\ pc' = "rerun"
    /\ IF keep THEN UNCHANGED widgets ELSE DropStep0Widgets
    /\ UNCHANGED <<merged_video_path, instructions, selected_voice, disk,
                   media>>

\* Mutant of start_over: the final 'processing_step = 0' is missing, so the
\* step is not brought back to 0.
start_over_KeepsStep(keep) ==
    /\ pc = "idle"
    /\ event' = "start_over"
    /\ video_path' = None
    /\ voiceover_text' = ""
    /\ audio_path' = None
    /\ merged_video_path' = None
    /\ msg' = "none"
    /\ pc' = "rerun"
    /\ IF keep THEN UNCHANGED widgets ELSE DropStep0Widgets
    /\ UNCHANGED <<processing_step, instructions, selected_voice, disk,
                   media>>

\* "Start New Project": start_over (lines 169-174), up to st.rerun().  The
\* run stops before any other widget is rendered; whether the framework
\* then keeps the state of the widgets it did not reach depends on its
\* version, so both outcomes are allowed (keep).
start_over(keep) ==
    /\ pc = "idle"
    /\ event' = "start_over"
    /\ video_path' = None
    /\ voiceover_text' = ""
    /\ audio_path' = None
    /\ merged_video_path' = None
    /\ processing_step' = 0
    /\ msg' = "none"
    /\ pc' = "rerun"
    /\ IF keep THEN UNCHANGED widgets ELSE DropStep0Widgets
    /\ UNCHANGED <<instructions, selected_voice, disk, media>>

\* The run of main that st.rerun() starts: no widget reports an event.
Rerun(saveOk) ==
    /\ pc = "rerun"
    /\ event' = "rerun"
    /\ pc' = "idle"
    /\ IF processing_step = 0
       THEN /\ uploader' = uploader
            /\ Step0Block(saveOk, instr_widget)
       ELSE /\ DropStep0Widgets
            /\ msg' = "none"
            /\ UNCHANGED <<video_path, instructions, disk>>
    /\ UNCHANGED <<processing_step, voiceover_text, audio_path,
                   merged_video_path, selected_voice, media>>

Next ==
    \/ \E saveOk \in BOOLEAN : UploadFile(saveOk)
    \/ RemoveFile
    \/ \E saveOk \in BOOLEAN, typed \in Instr : EnterInstructions(saveOk, typed)
    \/ \E saveOk \in BOOLEAN : ClickGenerateText(saveOk)
    \/ \E ok \in BOOLEAN : generate_text_callback(ok)
    \/ \E t \in Scripts : EditScript(t)
    \/ \E v \in Voices : SelectVoice(v)
    \/ \E ok \in BOOLEAN : generate_audio_callback(ok)
    \/ \E ok \in BOOLEAN : merge_video_audio_callback(ok)
    \/ EditTextAgain
    \/ ChangeVoiceSettings
    \/ AdjustVolumes
    \/ \E keep \in BOOLEAN : start_over(keep)
    \/ \E saveOk \in BOOLEAN : Rerun(saveOk)

Spec == Init /\ [][Next]_vars

(* ------------- utils.py / genai.py: the media functions ---------------- *)

\* An audio clip of the media library: where it comes from, its duration
\* and the gain applied to it.
Clip(src, d) == [src |-> src, dur |-> d, gain |-> Unity]

\* clip.with_volume_scaled(factor): a copy with the gain multiplied.
with_volume_scaled(clip, factor) ==
    [clip EXCEPT !.gain = (clip.gain * factor) \div Unity]

\* clip.subclipped(0, end): a copy that stops at end.
subclipped(clip, end) == [clip EXCEPT !.dur = end]

\* The duration of CompositeAudioClip(tracks): the latest end of its tracks.
Duration(tracks) ==
    IF tracks = {} THEN 0
    ELSE CHOOSE d \in {c.dur : c \in tracks} : \A c \in tracks : c.dur <= d

\* The inputs of a call and the state before it.
MediaInit ==
    /\ init_session_state
    /\ uploader = FALSE /\ instr_widget = ""
    /\ files = {} /\ nextId = 1
    /\ pc = "idle" /\ event = "none" /\ msg = "none"
    /\ vdur \in 1..MaxDur /\ adur \in 1..MaxDur /\ odur \in 0..MaxDur
    /\ video_volume \in VideoVolumes /\ audio_volume \in AudioVolumes
    /\ mpc = "ready"
    /\ original_audio = {} /\ added_audio_clip = {} /\ final_audio = {}
    /\ written = {} /\ handles = {} /\ temp_dir = FALSE /\ frames = <<>>
    /\ result = "none" /\ nwords_max = <<0, 1>> /\ requests = 0

Controller == <<session, widgets, disk, pc, event, msg>>

\* merge_video_with_audio is called (line 70).
StartMerge ==
    /\ mpc = "ready"
    /\ mpc' = "m_load_video"
    /\ original_audio' = {} /\ added_audio_clip' = {} /\ final_audio' = {}
    /\ written' = {}
    /\ result' = "none"
    /\ UNCHANGED <<Controller, calls,
                   inputs, handles, temp_dir, frames>>

\* video_clip = VideoFileClip(video_path) (lines 100-101).
LoadVideo(ok) ==
    /\ mpc = "m_load_video"
    /\ IF ok
       THEN mpc' = "m_load_audio" /\ handles' = handles \cup {"video_clip"}
       ELSE mpc' = "m_except" /\ UNCHANGED handles
    /\ UNCHANGED <<Controller, calls,
                   inputs, locals, written, temp_dir, frames,
                   result>>

\* added_audio_clip = AudioFileClip(audio_path) (lines 104-105).
LoadAudio(ok) ==
    /\ mpc = "m_load_audio"
    /\ IF ok
       THEN /\ mpc' = "m_scale_original"
            /\ handles' = handles \cup {"added_audio_clip"}
            /\ added_audio_clip' = {Clip("added", adur)}
       ELSE mpc' = "m_except" /\ UNCHANGED <<handles, added_audio_clip>>
    /\ UNCHANGED <<Controller, calls,
                   inputs, original_audio, final_audio, written,
                   temp_dir, frames, result>>

\* Lines 108-112: the video's own track, scaled unless the gain is 1.0.
ScaleOriginal ==
    /\ mpc = "m_scale_original"
    /\ original_audio' =
         IF odur # 0
         THEN IF video_volume # Unity
              THEN {with_volume_scaled(Clip("original", odur), video_volume)}
              ELSE {Clip("original", odur)}
         ELSE {}
    /\ mpc' = "m_scale_added"
    /\ UNCHANGED <<Controller, calls,
                   inputs, added_audio_clip, final_audio,
                   written, handles, temp_dir, frames, result>>

\* Mutant of ScaleAdded: the added track is scaled by the gain of the
\* original track.
ScaleAdded_UsesVideoVolume ==
    /\ mpc = "m_scale_added"
    /\ added_audio_clip' =
         IF video_volume # Unity
         THEN {with_volume_scaled(c, video_volume) : c \in added_audio_clip}
         ELSE added_audio_clip
    /\ mpc' = "m_trim"
    /\ UNCHANGED <<Controller, calls,
                   inputs, original_audio, final_audio, written,
                   handles, temp_dir, frames, result>>

\* Lines 115-116: the added track, scaled unless the gain is 1.0.
ScaleAdded ==
    /\ mpc = "m_scale_added"
    /\ added_audio_clip' =
         IF audio_volume # Unity
         THEN {with_volume_scaled(c, audio_volume) : c \in added_audio_clip}
         ELSE added_audio_clip
    /\ mpc' = "m_trim"
    /\ UNCHANGED <<Controller, calls,
                   inputs, original_audio, final_audio, written,
                   handles, temp_dir, frames, result>>

\* Lines 119-120: an added track longer than the video is cut to it.
Trim ==
    /\ mpc = "m_trim"
    /\ added_audio_clip' =
         {IF c.dur > vdur THEN subclipped(c, vdur) ELSE c :
              c \in added_audio_clip}
    /\ mpc' = "m_composite"
    /\ UNCHANGED <<Controller, calls,
                   inputs, original_audio, final_audio, written,
                   handles, temp_dir, frames, result>>

\* Lines 123-136: final_clip carries both tracks, or the added one alone.
Composite(ok) ==
    /\ mpc = "m_composite"
    /\ IF ok
       THEN /\ final_audio' =
                 IF original_audio # {}
                 THEN original_audio \cup added_audio_clip
                 ELSE added_audio_clip
            /\ mpc' = "m_write"
       ELSE mpc' = "m_except" /\ UNCHANGED final_audio
    /\ UNCHANGED <<Controller, calls,
                   inputs, original_audio, added_audio_clip,
                   written, handles, temp_dir, frames, result>>

\* Lines 139-151: final_clip.write_videofile(merged_path, ...).
WriteVideo(ok) ==
    /\ mpc = "m_write"
    /\ IF ok
       THEN mpc' = "m_close" /\ written' = final_audio
       ELSE mpc' = "m_except" /\ UNCHANGED written
    /\ UNCHANGED <<Controller, calls,
                   inputs, locals, handles, temp_dir, frames,
                   result>>

\* Lines 154-161: the clips are closed and merged_path is returned.
CloseClips ==
    /\ mpc = "m_close"
    /\ handles' = handles \ {"video_clip", "added_audio_clip"}
    /\ result' = "merge_returned"
    /\ mpc' = "ready"
    /\ UNCHANGED <<Controller, calls,
                   inputs, locals, written, temp_dir, frames>>

\* Lines 163-167: the except clause prints the error and re-raises.
MergeExcept ==
    /\ mpc = "m_except"
    /\ result' = "merge_raised"
    /\ mpc' = "ready"
    /\ UNCHANGED <<Controller, calls,
                   inputs, locals, written, handles, temp_dir,
                   frames>>

\* A rational number is a pair <<numerator, denominator>>, denominator > 0.
RatMul(r, n) == <<r[1] * n, r[2]>>
RatLess(a, b) == a[1] * b[2] < b[1] * a[2]

\* wps = 200/60 (utils.py line 47).
wps == <<WordsPerMinute, SecondsPerMinute>>

\* Mutant of nwords_max_of: the rate is computed with integer division.
nwords_max_of_IntDiv(duration_secs) ==
    <<(WordsPerMinute \div SecondsPerMinute) * duration_secs, 1>>

\* nwords_max = wps*duration_secs (utils.py line 49).
nwords_max_of(duration_secs) == RatMul(wps, duration_secs)

\* generate_voiceover_text (utils.py lines 36-55) up to its call of
\* generate_video_description: get_video_duration opens the video, reads
\* its duration and closes it (lines 22-32); ok is whether the video could
\* be opened.  Nothing catches the exception here.
generate_voiceover_text(ok) ==
    /\ mpc = "ready"
    /\ IF ok
       THEN /\ nwords_max' = nwords_max_of(vdur)
            /\ mpc' = "t_describe"
            /\ result' = "none"
       ELSE /\ UNCHANGED nwords_max
            /\ mpc' = "ready"
            /\ result' = "text_raised"
    /\ UNCHANGED <<Controller, requests, inputs, locals, written, handles,
                   temp_dir, frames>>

\* generate_video_description is called, by generate_voiceover_text (utils.py
\* line 54) or directly: temp_dir = tempfile.mkdtemp() (genai.py lines
\* 263-264).
StartDescribe ==
    /\ mpc \in {"ready", "t_describe"}
    /\ temp_dir' = TRUE
    /\ frames' = <<>>
    /\ requests' = 0
    /\ result' = "none"
    /\ mpc' = "d_load"
    /\ UNCHANGED <<Controller, nwords_max, inputs, locals, written, handles>>

\* video = VideoFileClip(video_path) (genai.py lines 268-272).
DescribeLoad(ok) ==
    /\ mpc = "d_load"
    /\ IF ok
       THEN mpc' = "d_frames" /\ handles' = handles \cup {"video"}
       ELSE mpc' = "d_finally_raise" /\ UNCHANGED handles
    /\ UNCHANGED <<Controller, calls,
                   inputs, locals, written, temp_dir, frames,
                   result>>

\* Mutant of SaveFrame: the loop index runs over range(1, 11).
SaveFrame_FromOne(ok) ==
    /\ mpc = "d_frames"
    /\ Len(frames) < NumFrames
    /\ IF ok
       THEN /\ frames' = Append(frames, (Len(frames) + 1) * vdur)
            /\ mpc' = IF Len(frames) + 1 = NumFrames
                      THEN "d_close" ELSE "d_frames"
       ELSE mpc' = "d_finally_raise" /\ UNCHANGED frames
    /\ UNCHANGED <<Controller, calls,
                   inputs, locals, written, handles, temp_dir,
                   result>>

\* One turn of the loop of genai.py lines 275-278: video.save_frame at
\* i * duration / 9; the timestamp is kept in ninths of a second.
SaveFrame(ok) ==
    /\ mpc = "d_frames"
    /\ Len(frames) < NumFrames
    /\ IF ok
       THEN /\ frames' = Append(frames, Len(frames) * vdur)
            /\ mpc' = IF Len(frames) + 1 = NumFrames
                      THEN "d_close" ELSE "d_frames"
       ELSE mpc' = "d_finally_raise" /\ UNCHANGED frames
    /\ UNCHANGED <<Controller, calls,
                   inputs, locals, written, handles, temp_dir,
                   result>>

\* video.close() (genai.py line 281).
DescribeClose ==
    /\ mpc = "d_close"
    /\ handles' = handles \ {"video"}
    /\ mpc' = "d_request"
    /\ UNCHANGED <<Controller, calls,
                   inputs, locals, written, temp_dir, frames,
                   result>>

\* self.generate_image_description(...) (genai.py lines 284-286).
DescribeRequest(ok) ==
    /\ mpc = "d_request"
    /\ mpc' = IF ok THEN "d_finally_return" ELSE "d_finally_raise"
    /\ requests' = requests + 1
    /\ UNCHANGED <<Controller, nwords_max, inputs, locals, written, handles,
                   temp_dir, frames, result>>

\* Mutant of DescribeFinally: the directory is removed on the return path
\* only, as if rmtree stood at the end of the try block.
DescribeFinally_OnReturnOnly ==
    /\ mpc \in {"d_finally_return", "d_finally_raise"}
    /\ temp_dir' = IF mpc = "d_finally_return" THEN FALSE ELSE temp_dir
    /\ result' = IF mpc = "d_finally_return"
                 THEN "describe_returned" ELSE "describe_raised"
    /\ mpc' = "ready"
    /\ UNCHANGED <<Controller, calls,
                   inputs, locals, written, handles, frames>>

\* finally: shutil.rmtree(temp_dir) (genai.py lines 288-291), then the
\* return or the propagation of the exception.
DescribeFinally ==
    /\ mpc \in {"d_finally_return", "d_finally_raise"}
    /\ temp_dir' = FALSE
    /\ result' = IF mpc = "d_finally_return"
                 THEN "describe_returned" ELSE "describe_raised"
    /\ mpc' = "ready"
    /\ UNCHANGED <<Controller, calls,
                   inputs, locals, written, handles, frames>>

MediaNext ==
    \/ \E ok \in BOOLEAN : generate_voiceover_text(ok)
    \/ StartMerge
    \/ \E ok \in BOOLEAN : LoadVideo(ok)
    \/ \E ok \in BOOLEAN : LoadAudio(ok)
    \/ ScaleOriginal
    \/ ScaleAdded
    \/ Trim
    \/ \E ok \in BOOLEAN : Composite(ok)
    \/ \E ok \in BOOLEAN : WriteVideo(ok)
    \/ CloseClips
    \/ MergeExcept
    \/ StartDescribe
    \/ \E ok \in BOOLEAN : DescribeLoad(ok)
    \/ \E ok \in BOOLEAN : SaveFrame(ok)
    \/ DescribeClose
    \/ \E ok \in BOOLEAN : DescribeRequest(ok)
    \/ DescribeFinally

SpecMedia == MediaInit /\ [][MediaNext]_vars

(* ------------------------------ claims --------------------------------- *)

StageEvents == {"generate_text", "generate_audio", "merge"}
StageErrors == {"text_err", "audio_err", "merge_err"}

\* C1: a failed stage invocation (drafting, synthesis or merge) leaves the
\* stage ordinal at the value it had before the invocation.
C1_FailedStageKeepsStep ==
    [][msg' \in StageErrors => processing_step' = processing_step]_vars

\* C2: between runs, a present SynthesizedAudio implies a non-empty
\* NarrationScript, and a present MergedVideo implies that SourceVideo and
\* SynthesizedAudio are present.
C2_DownstreamImpliesUpstream ==
    pc = "idle" =>
        /\ (audio_path # None => voiceover_text # "")
        /\ (merged_video_path # None =>
                video_path # None /\ audio_path # None)

\* C3: every invocation of a stage leaves the artifacts downstream of it
\* absent: after drafting no SynthesizedAudio and no MergedVideo, after
\* synthesis no MergedVideo.
C3_RerunInvalidatesDownstream ==
    [][/\ (pc = "text_cb" /\ pc' = "idle" =>
               audio_path' = None /\ merged_video_path' = None)
       /\ (event' = "generate_audio" => merged_video_path' = None)]_vars

\* C4: a synthesis invocation, succeeding or failing, changes neither
\* SourceVideo nor NarrationScript; a merge invocation, succeeding or
\* failing, changes none of SourceVideo, NarrationScript, SynthesizedAudio.
C4_UpstreamUntouched ==
    [][/\ (event' = "generate_audio" =>
               UNCHANGED <<video_path, voiceover_text>>)
       /\ (event' = "merge" =>
               UNCHANGED <<video_path, voiceover_text, audio_path>>)]_vars

\* C4 witness: a synthesis was re-run and failed while the script, the
\* source video and an earlier merged video were all present.
C4_Witness ==
    /\ event = "generate_audio" /\ msg = "audio_err"
    /\ video_path # None /\ voiceover_text # "" /\ merged_video_path # None

C6_FailedStageCanBeRetried ==
    pc = "idle" =>
        /\ (msg = "text_err" => CanDraft)
        /\ (msg = "audio_err" => CanSynthesize)
        /\ (msg = "merge_err" => CanMerge)

\* The explicit rewind actions the page offers to ordinal j: the reset for
\* j = 0, a retry button for j = 1 and j = 2.
RewindOffered(j) ==
    \/ j = 0
    \/ j \in {1, 2} /\ CanRetry

\* C7 as stated: in every state between runs with ordinal k > 0 a rewind
\* to every j < k is offered.
C7_RewindFromEveryState ==
    pc = "idle" /\ processing_step > 0 =>
        \A j \in 0..(processing_step - 1) : RewindOffered(j)

\* C7 as amended: at ordinal 3 with the merged video on disk the retry
\* buttons are enabled and set the ordinal to 1, 1 and 2; they act in no
\* other state; the reset is enabled between runs and sets the ordinal to
\* 0; and the ordinal increases only in a step of a stage invocation.
C7_RewindsAndForwardSteps ==
    [][/\ (pc = "idle" /\ processing_step = 3 /\ Exists(merged_video_path)
              => ENABLED EditTextAgain /\ ENABLED ChangeVoiceSettings
                 /\ ENABLED AdjustVolumes)
       /\ (pc = "idle" => ENABLED (\E keep \in BOOLEAN : start_over(keep)))
       /\ (event' \in {"edit_text_again", "change_voice_settings"} =>
              processing_step = 3 /\ Exists(merged_video_path)
              /\ processing_step' = 1)
       /\ (event' = "adjust_volumes" =>
              processing_step = 3 /\ Exists(merged_video_path)
              /\ processing_step' = 2)
       /\ (event' = "start_over" => processing_step' = 0)
       /\ (processing_step' > processing_step => event' \in StageEvents)]_vars

\* C7 witness: "Adjust Volumes" was clicked after a merge and the ordinal
\* is back at 2.
C7_Witness ==
    event = "adjust_volumes" /\ processing_step = 2 /\ pc = "rerun"

\* C8: whenever control is back at the caller, no media handle opened by
\* merge_video_with_audio or generate_video_description is still open.
C8_HandlesClosedOnEveryExit ==
    mpc = "ready" => handles = {}

\* C9: a failed stage resets its own output artifact and changes no other
\* artifact reference.
C9_FailureResetsOwnArtifactOnly ==
    [][/\ (msg' = "text_err" =>
              /\ voiceover_text' = ""
              /\ UNCHANGED <<video_path, audio_path, merged_video_path>>)
       /\ (msg' = "audio_err" =>
              /\ audio_path' = None
              /\ UNCHANGED <<video_path, voiceover_text, merged_video_path>>)
       /\ (msg' = "merge_err" =>
              /\ merged_video_path' = None
              /\ UNCHANGED <<video_path, voiceover_text, audio_path>>)]_vars

\* C9 witness: a merge failed in a session whose upstream artifacts are
\* all present.
C9_Witness ==
    /\ event = "merge" /\ msg = "merge_err"
    /\ video_path # None /\ voiceover_text # "" /\ audio_path # None
    /\ merged_video_path = None

\* C10: the audio written by a merge that returned is no longer than the
\* video, and exactly as long when the synthesized audio is longer.
C10_CompositeBoundedByVideo ==
    result = "merge_returned" =>
        /\ Duration(written) <= vdur
        /\ (adur > vdur => Duration(written) = vdur)

\* The smaller of two durations.
Min(a, b) == IF a <= b THEN a ELSE b

\* C11: the audio written by a merge that returned is, for a video without
\* an audio track, the synthesized track alone at the synthesized gain
\* (whatever the original gain) and of duration min(synthesized, video);
\* for a video with an audio track, that track at the original gain
\* together with the synthesized track at the synthesized gain.
C11_CompositeTracksAndGains ==
    result = "merge_returned" =>
        LET added == [src |-> "added", dur |-> Min(adur, vdur),
                      gain |-> audio_volume]
            original == [src |-> "original", dur |-> odur,
                         gain |-> video_volume]
        IN  written = IF odur = 0 THEN {added} ELSE {original, added}

\* C11 witness: a merge returned for a video without audio track, with an
\* original gain below 1.0, a synthesized gain other than 1.0 and a
\* synthesized track longer than the video.
C11_Witness ==
    /\ result = "merge_returned" /\ odur = 0
    /\ video_volume # Unity /\ audio_volume # Unity /\ adur > vdur
    /\ written # {}

\* C12: whenever generate_video_description has returned or raised, the
\* scratch directory it created no longer exists.
C12_ScratchDirRemoved ==
    mpc = "ready" => ~temp_dir

\* C12 witness: the call raised after frames had been written to the
\* scratch directory (a failed frame extraction or a failed request).
C12_Witness ==
    /\ mpc = "ready" /\ result = "describe_raised"
    /\ Len(frames) > 0 /\ ~temp_dir

\* C13: in the state a full reset leaves, no scratch file created earlier
\* in the session (uploaded copies, synthesized audio, merged videos) is
\* left in the session's scratch directory.
C13_ResetDiscardsFiles ==
    event = "start_over" => files = {}

\* C14: the word budget computed for a video of duration d is (200/60) * d,
\* and it is larger than the budget of every shorter video and smaller
\* than the budget of every longer one.
C14_WordBudget ==
    nwords_max[1] # 0 =>
        /\ nwords_max[1] * 60 = 200 * vdur * nwords_max[2]
        /\ \A d \in 1..MaxDur :
              /\ (d < vdur => RatLess(nwords_max_of(d), nwords_max))
              /\ (vdur < d => RatLess(nwords_max, nwords_max_of(d)))

\* C14 witness: the budget was computed for a video that is neither the
\* shortest nor the longest of the durations considered.
C14_Witness ==
    /\ mpc = "t_describe" /\ nwords_max[1] # 0
    /\ \E d1, d2 \in 1..MaxDur : d1 < vdur /\ vdur < d2

\* The timestamps of a finished sampling, in ninths of a second: 10 of
\* them, the i-th (counted from 0) at i * d / 9, so the first at 0 and the
\* last at d, in non-decreasing order.
SamplingDone ==
    /\ Len(frames) = 10
    /\ \A i \in 0..9 : frames[i + 1] = i * vdur
    /\ frames[1] = 0
    /\ frames[10] = 9 * vdur
    /\ \A i \in 1..9 : frames[i] <= frames[i + 1]

\* C15: a call of generate_video_description submits at most one generation
\* request, and when it is about to submit it, or has submitted it, the 10
\* frames have been extracted at the timestamps above.
C15_FrameSampling ==
    /\ requests <= 1
    /\ (mpc = "d_request" \/ requests = 1 => SamplingDone)

\* C15 witness: the request was submitted for a video of more than one
\* second.
C15_Witness ==
    /\ requests = 1 /\ vdur > 1 /\ Len(frames) = 10
    /\ mpc \in {"d_finally_return", "d_finally_raise"}

\* C16: once SourceVideo is set, no run of main other than a full reset
\* changes the path it refers to.  (A run in which the user puts another
\* file in the uploader is left out: it ingests a new video.)
C16_SourceVideoImmutable ==
    [][video_path # None /\ event' \notin {"start_over", "upload"}
           => video_path' = video_path]_vars

\* C17: the ordinal is in 0..3; an ordinal >= 1 implies that SourceVideo is
\* present; where the merge button is rendered SourceVideo and
\* SynthesizedAudio are present; and where generate_text_callback is about
\* to run SourceVideo is present and the instructions are non-empty.
C17_StageGuards ==
    /\ processing_step \in 0..3
    /\ (processing_step >= 1 => video_path # None)
    /\ (CanMerge => video_path # None /\ audio_path # None)
    /\ (pc = "text_cb" => video_path # None /\ instructions # "")

\* C17 witness: a merge was invoked and succeeded, in a session whose runs
\* at step 0 had saved the upload more than three times.
C17_Witness ==
    /\ event = "merge" /\ msg = "merge_ok" /\ processing_step = 3
    /\ Cardinality({f \in files : f[1] = "merged_video"}) = 1
    /\ Cardinality({f \in files : f[1] = "voiceover"}) = 1
    /\ Cardinality({f \in files : f[1] = "input_video"}) > 3

====
